---- MODULE Spec2Model ----
(***************************************************************************)
(* Model of train_main.py: the contact fields and their validators, the    *)
(* Record, the AddressBook store with its pickle persistence, the          *)
(* input_error-wrapped command handlers and the main read loop.            *)
(*                                                                         *)
(* Texts (Python str) are sequences of one-character strings, so that      *)
(* validation, lower-casing and rendering are computed character by        *)
(* character.  The character U+00B2 (SUPERSCRIPT TWO) is written "U+00B2". *)
(***************************************************************************)
EXTENDS Integers, Sequences, FiniteSets, TLC

\* ------------------------------------------------------------------------
\* Bounds of the model
\* ------------------------------------------------------------------------
\* number of operations (handler calls, input lines, file steps) in a run
MaxSteps == 3
\* longest text given to the Email constructor on its own
MaxEmailLen == 6

\* ------------------------------------------------------------------------
\* Texts used as inputs
\* ------------------------------------------------------------------------
NameA == <<"A">>
NameB == <<"B">>
NameC == <<"C">>
NameD == <<"D">>
Names == {NameA, NameB}

PhoneA   == <<"1","2","3","4","5","6","7","8","9","0">>
PhoneB   == <<"0","9","8","7","6","5","4","3","2","1">>
PhoneBad == <<"1","2","x">>
PhoneSup == <<"U+00B2","U+00B2","U+00B2","U+00B2","U+00B2",
              "U+00B2","U+00B2","U+00B2","U+00B2","U+00B2">>
PhoneTexts == {PhoneA, PhoneB, PhoneBad, PhoneSup}

EmailOk  == <<"a","@","b",".","c">>
EmailBad == <<"a","@","b">>
EmailTexts == {EmailOk, EmailBad}

AddrX == <<"x">>
NoteN == <<"n">>
TagT  == <<"t">>

BdayOk  == <<"0","3",".","0","1",".","2","0","2","4">>
BdayBad == <<"3","1",".","0","2",".","2","0","2","4">>
BdayTexts == {BdayOk, BdayBad}

FileNames == {<<"f">>}

\* ------------------------------------------------------------------------
\* Python values
\* ------------------------------------------------------------------------
\* an optional attribute: None, or an object holding a text
None == [some |-> FALSE, v |-> <<>>]
Some(text) == [some |-> TRUE, v |-> text]

\* an argument of remove_phone: a str, or a Phone object holding a text
PyStr(text) == [cls |-> "str", v |-> text]
PyPhone(text) == [cls |-> "Phone", v |-> text]

\* str(p) != phone for a Phone p rendering as text s.  Field defines no
\* __eq__, so a str never equals a Phone object.
StrNe(s, phone) == ~(phone.cls = "str" /\ phone.v = s)

RECURSIVE SelectSeqBy(_, _)
\* [p for p in phones if str(p) != phone]
SelectSeqBy(phones, phone) ==
  IF phones = <<>> THEN <<>>
  ELSE LET rest == SelectSeqBy(Tail(phones), phone)
       IN IF StrNe(Head(phones), phone) THEN <<Head(phones)>> \o rest ELSE rest

\* ------------------------------------------------------------------------
\* Field validators
\* ------------------------------------------------------------------------
DecimalDigits == {"0","1","2","3","4","5","6","7","8","9"}
\* str.isdigit is true of every character with Numeric_Type Digit or
\* Decimal, which includes the superscript digits
DigitChars == DecimalDigits \cup {"U+00B2"}

\* value.isdigit()
isdigit(value) ==
  /\ Len(value) > 0
  /\ \A i \in 1..Len(value) : value[i] \in DigitChars

MsgPhone == "Invalid phone number format. It should contain 10 digits."
MsgEmail == "Invalid email format."
MsgBirthday == "Invalid birthday format. It should be in DD.MM.YYYY format."

\* Phone.__init__ accepts value
PhoneOk(value) == ~(~isdigit(value) \/ Len(value) # 10)

\* re.match(r"[^@]+@[^@]+\.[^@]+", value): a match of a prefix of value
EmailMatch(value) ==
  \E a \in 1..Len(value) : \E d \in 1..Len(value) :
    /\ a > 1
    /\ \A i \in 1..(a - 1) : value[i] # "@"
    /\ value[a] = "@"
    /\ d > a + 1
    /\ \A i \in (a + 1)..(d - 1) : value[i] # "@"
    /\ value[d] = "."
    /\ d + 1 <= Len(value)
    /\ value[d + 1] # "@"

\* Email.__init__ accepts value
EmailOkay(value) == EmailMatch(value)

DigitVal(c) ==
  CASE c = "0" -> 0 [] c = "1" -> 1 [] c = "2" -> 2 [] c = "3" -> 3
    [] c = "4" -> 4 [] c = "5" -> 5 [] c = "6" -> 6 [] c = "7" -> 7
    [] c = "8" -> 8 [] c = "9" -> 9 [] OTHER -> 0

RECURSIVE IntOf(_)
IntOf(text) ==
  IF text = <<>> THEN 0
  ELSE 10 * IntOf(SubSeq(text, 1, Len(text) - 1)) + DigitVal(text[Len(text)])

IsLeap(y) == (y % 4 = 0 /\ y % 100 # 0) \/ y % 400 = 0

DaysInMonth(y, m) ==
  IF m = 2 THEN (IF IsLeap(y) THEN 29 ELSE 28)
  ELSE IF m \in {4, 6, 9, 11} THEN 30 ELSE 31

\* positions of the "." characters of a text
DotsOf(value) == {i \in 1..Len(value) : value[i] = "."}

AllDecimal(text) == \A i \in 1..Len(text) : text[i] \in DecimalDigits

\* datetime.strptime(value, '%d.%m.%Y'): the day is one or two digits
\* (1..31, optionally zero- or space-padded), the month one or two digits
\* (1..12), the year four digits; the date must exist in the calendar.
\* The result is <<ok, year, month, day>>.
strptime(value) ==
  LET dots == DotsOf(value)
      d1 == CHOOSE i \in dots : \A j \in dots : i <= j
      d2 == CHOOSE i \in dots : \A j \in dots : j <= i
      ds0 == SubSeq(value, 1, d1 - 1)
      ds == IF Len(ds0) = 2 /\ ds0[1] = " " THEN <<"0", ds0[2]>> ELSE ds0
      ms == SubSeq(value, d1 + 1, d2 - 1)
      ys == SubSeq(value, d2 + 1, Len(value))
      shape == /\ Cardinality(dots) = 2
               /\ Len(ds) \in {1, 2} /\ AllDecimal(ds)
               /\ Len(ms) \in {1, 2} /\ AllDecimal(ms)
               /\ Len(ys) = 4 /\ AllDecimal(ys)
  IN IF ~shape THEN <<FALSE, 0, 0, 0>>
     ELSE LET d == IntOf(ds)
              m == IntOf(ms)
              y == IntOf(ys)
          IN IF /\ d >= 1 /\ m >= 1 /\ m <= 12 /\ y >= 1
                /\ (Len(ds0) = 2 /\ ds0[1] = " " => d <= 9)
                /\ d <= DaysInMonth(y, m)
             THEN <<TRUE, y, m, d>>
             ELSE <<FALSE, 0, 0, 0>>

\* Birthday.__init__ accepts value
BirthdayOk(value) == strptime(value)[1]

\* ------------------------------------------------------------------------
\* Rendered text
\* ------------------------------------------------------------------------
\* A rendered text is a sequence of strings: the characters of the user's
\* texts, and the literal pieces of the program's messages as one string
\* each.  Concatenation of Python strings is \o.
RECURSIVE Join(_, _)
\* sep.join(texts)
Join(sep, texts) ==
  IF texts = <<>> THEN <<>>
  ELSE IF Len(texts) = 1 THEN texts[1]
  ELSE texts[1] \o sep \o Join(sep, Tail(texts))

\* ------------------------------------------------------------------------
\* Record
\* ------------------------------------------------------------------------
\* Record.__init__
NewRecord(name) ==
  [name |-> name, phones |-> <<>>, email |-> None, address |-> None,
   birthday |-> None, notes |-> None, tags |-> <<>>]

\* The result of a Record method that may raise: the record as the method
\* left it, and the message of the ValueError raised ("" when none is).
Done(rec) == [rec |-> rec, err |-> ""]
Fail(rec, msg) == [rec |-> rec, err |-> msg]

add_phone(rec, phone) ==
  IF PhoneOk(phone) THEN Done([rec EXCEPT !.phones = Append(@, phone)])
  ELSE Fail(rec, MsgPhone)

add_email(rec, email) ==
  IF EmailOkay(email) THEN Done([rec EXCEPT !.email = Some(email)])
  ELSE Fail(rec, MsgEmail)

add_address(rec, address) == Done([rec EXCEPT !.address = Some(address)])

add_birthday(rec, birthday) ==
  IF BirthdayOk(birthday) THEN Done([rec EXCEPT !.birthday = Some(birthday)])
  ELSE Fail(rec, MsgBirthday)

add_notes(rec, notes) == [rec EXCEPT !.notes = Some(notes)]

add_tag(rec, tag) == [rec EXCEPT !.tags = Append(@, tag)]

edit_email(rec, new_email) ==
  IF EmailOkay(new_email) THEN Done([rec EXCEPT !.email = Some(new_email)])
  ELSE Fail(rec, MsgEmail)

\* edit_name that leaves the name as it was
edit_name_keep(rec, new_name) == rec

edit_name(rec, new_name) == [rec EXCEPT !.name = new_name]

edit_address(rec, new_address) ==
  Done([rec EXCEPT !.address = Some(new_address)])

show_tags(rec) ==
  IF rec.tags # <<>> THEN Join(<<", ">>, rec.tags) ELSE <<"No tags">>

\* phone is a PyStr or a PyPhone
RECURSIVE DropFirst(_, _)
DropFirst(phones, phone) ==
  IF phones = <<>> THEN <<>>
  ELSE IF StrNe(Head(phones), phone) THEN <<Head(phones)>> \o DropFirst(Tail(phones), phone)
       ELSE Tail(phones)

\* remove_phone that removes the first phone equal to the text only
remove_phone_first(rec, phone) ==
  [rec EXCEPT !.phones = DropFirst(@, phone)]

remove_phone(rec, phone) ==
  [rec EXCEPT !.phones = SelectSeqBy(@, phone)]

\* edit_phone that only adds the new phone
edit_phone_noremove(rec, old_phone, new_phone) == add_phone(rec, new_phone)

\* remove_phone(old_phone), then add_phone(new_phone): when the new phone is
\* rejected the removal has already happened
edit_phone(rec, old_phone, new_phone) ==
  add_phone(remove_phone(rec, old_phone), new_phone)

\* find_phone(phone) is not None
find_phone(rec, phone) == \E i \in 1..Len(rec.phones) : rec.phones[i] = phone

\* a str is true when it is not empty
show_notes(rec) ==
  IF rec.notes.some /\ rec.notes.v # <<>> THEN rec.notes.v ELSE <<"No notes">>

remove_email(rec) == [rec EXCEPT !.email = None]
remove_address(rec) == [rec EXCEPT !.address = None]
remove_birthday(rec) == [rec EXCEPT !.birthday = None]
remove_all_tags(rec) == [rec EXCEPT !.tags = <<>>]

OrNotSpecified(opt) == IF opt.some THEN opt.v ELSE <<"Not specified">>

\* Record.__str__
RecordStr(rec) ==
  <<"Contact name: ">> \o rec.name
  \o <<", phones: ">> \o Join(<<"; ">>, rec.phones)
  \o <<", email: ">> \o OrNotSpecified(rec.email)
  \o <<", address: ">> \o OrNotSpecified(rec.address)
  \o <<", birthday: ">> \o OrNotSpecified(rec.birthday)
  \o <<", notes: ">> \o show_notes(rec)
  \o <<", tags: ">> \o show_tags(rec)

\* ------------------------------------------------------------------------
\* AddressBook: self.data is a dict, kept as the sequence of its entries in
\* iteration (insertion) order
\* ------------------------------------------------------------------------
Entry(key, rec) == [key |-> key, rec |-> rec]

\* the position of key in the dict, 0 when it is not a key
IndexOf(d, key) ==
  IF \E i \in 1..Len(d) : d[i].key = key
  THEN CHOOSE i \in 1..Len(d) : d[i].key = key
  ELSE 0

HasKey(d, key) == IndexOf(d, key) # 0

\* d[key] = rec: an existing key keeps its position, a new key goes last
SetItem(d, key, rec) ==
  IF HasKey(d, key) THEN [d EXCEPT ![IndexOf(d, key)] = Entry(key, rec)]
  ELSE Append(d, Entry(key, rec))

\* del d[key] for a key of d
DelItem(d, key) ==
  LET i == IndexOf(d, key)
  IN SubSeq(d, 1, i - 1) \o SubSeq(d, i + 1, Len(d))

\* d[key] for a key of d
GetItem(d, key) == d[IndexOf(d, key)].rec

\* the record found under key is updated in place
Update(d, key, rec) == [d EXCEPT ![IndexOf(d, key)].rec = rec]

\* add_record that adds the phones to a record already stored under the name
add_record_merge(d, rec) ==
  IF HasKey(d, rec.name)
  THEN SetItem(d, rec.name,
               [GetItem(d, rec.name) EXCEPT !.phones = @ \o rec.phones])
  ELSE SetItem(d, rec.name, rec)

add_record(d, rec) == SetItem(d, rec.name, rec)

\* AddressBook.find(name) is not None
find(d, name) == HasKey(d, name)

RECURSIVE find_by_phone(_, _)
\* the first record with a phone rendering equal to phone, as <<found, rec>>
find_by_phone(d, phone) ==
  IF d = <<>> THEN <<FALSE, NewRecord(<<>>)>>
  ELSE IF find_phone(d[1].rec, phone) THEN <<TRUE, d[1].rec>>
  ELSE find_by_phone(Tail(d), phone)

RECURSIVE find_by_email(_, _)
find_by_email(d, email) ==
  IF d = <<>> THEN <<FALSE, NewRecord(<<>>)>>
  ELSE IF d[1].rec.email.some /\ d[1].rec.email.v = email
       THEN <<TRUE, d[1].rec>>
  ELSE find_by_email(Tail(d), email)

delete_contact(d, name) == IF HasKey(d, name) THEN DelItem(d, name) ELSE d

delete_email(d, name) ==
  IF find(d, name) /\ GetItem(d, name).email.some
  THEN Update(d, name, remove_email(GetItem(d, name))) ELSE d

delete_address(d, name) ==
  IF find(d, name) /\ GetItem(d, name).address.some
  THEN Update(d, name, remove_address(GetItem(d, name))) ELSE d

delete_phone(d, name, phone) ==
  IF find(d, name) /\ find_phone(GetItem(d, name), phone)
  THEN Update(d, name, remove_phone(GetItem(d, name), PyStr(phone))) ELSE d

delete_birthday(d, name) ==
  IF find(d, name) /\ GetItem(d, name).birthday.some
  THEN Update(d, name, remove_birthday(GetItem(d, name))) ELSE d

delete_all_tags(d, name) ==
  IF find(d, name)
  THEN Update(d, name, remove_all_tags(GetItem(d, name))) ELSE d

HasTag(rec, tag) == \E i \in 1..Len(rec.tags) : rec.tags[i] = tag

RECURSIVE search_by_tag(_, _)
search_by_tag(d, tag) ==
  IF d = <<>> THEN <<>>
  ELSE IF HasTag(d[1].rec, tag)
       THEN <<d[1].rec>> \o search_by_tag(Tail(d), tag)
       ELSE search_by_tag(Tail(d), tag)

RECURSIVE WithoutTag(_, _)
WithoutTag(d, tag) ==
  IF d = <<>> THEN <<>>
  ELSE IF ~HasTag(d[1].rec, tag)
       THEN <<d[1].rec>> \o WithoutTag(Tail(d), tag)
       ELSE WithoutTag(Tail(d), tag)

\* One step of the stable sort on key = tag in record.tags (False < True):
\* rec goes before the first record whose key is greater than its own.
RECURSIVE InsertByKey(_, _, _)
InsertByKey(recs, rec, tag) ==
  IF recs = <<>> THEN <<rec>>
  ELSE IF HasTag(Head(recs), tag) /\ ~HasTag(rec, tag)
       THEN <<rec>> \o recs
       ELSE <<Head(recs)>> \o InsertByKey(Tail(recs), rec, tag)

\* sorted(...) over the values not yet placed, in the order of the store
RECURSIVE SortedFrom(_, _, _)
SortedFrom(placed, d, tag) ==
  IF d = <<>> THEN placed
  ELSE SortedFrom(InsertByKey(placed, d[1].rec, tag), Tail(d), tag)

\* sorted(...) with the records that hold the tag first
sort_by_tags_reverse(d, tag) == search_by_tag(d, tag) \o WithoutTag(d, tag)

\* sorted(self.data.values(), key=lambda record: tag in record.tags)
sort_by_tags(d, tag) == SortedFrom(<<>>, d, tag)

\* days from 01.01.0001 to the date
DayNumber(y, m, d) ==
  LET yy == y - 1
      before == {k \in 1..12 : k < m}
      RECURSIVE SumDays(_)
      SumDays(S) == IF S = {} THEN 0
                    ELSE LET k == CHOOSE x \in S : TRUE
                         IN DaysInMonth(y, k) + SumDays(S \ {k})
  IN 365 * yy + (yy \div 4) - (yy \div 100) + (yy \div 400) + SumDays(before) + d

\* A datetime: its day number and the seconds since midnight of that day.
\* Datetimes compare by day, then by time of day.
Instant(day, secs) == [day |-> day, secs |-> secs]

\* today <= birthday_date < next_week that accepts birthday_date = next_week
InWeekClosed(now, bday) ==
  LET today == now
      next_week == Instant(today.day + 7, today.secs)
      birthday_date == Instant(bday, 0)
  IN /\ (today.day < birthday_date.day
          \/ (today.day = birthday_date.day /\ today.secs <= birthday_date.secs))
     /\ (birthday_date.day < next_week.day
          \/ (birthday_date.day = next_week.day /\ birthday_date.secs <= next_week.secs))

\* today <= birthday_date < next_week, with next_week = today +
\* timedelta(days=7) and birthday_date at midnight of day bday
InWeek(now, bday) ==
  LET today == now
      next_week == Instant(today.day + 7, today.secs)
      birthday_date == Instant(bday, 0)
  IN /\ (today.day < birthday_date.day
          \/ (today.day = birthday_date.day /\ today.secs <= birthday_date.secs))
     /\ (birthday_date.day < next_week.day
          \/ (birthday_date.day = next_week.day /\ birthday_date.secs < next_week.secs))

RECURSIVE get_birthdays_per_week(_, _)
\* the names of the records whose birthday lies in the week from now
get_birthdays_per_week(d, now) ==
  IF d = <<>> THEN <<>>
  ELSE LET rec == d[1].rec
           rest == get_birthdays_per_week(Tail(d), now)
       IN IF rec.birthday.some
          THEN LET t == strptime(rec.birthday.v)
               IN IF InWeek(now, DayNumber(t[2], t[3], t[4]))
                  THEN <<rec.name>> \o rest ELSE rest
          ELSE rest

\* ------------------------------------------------------------------------
\* pickle: the dict is written as a stream of operations and read back by
\* parsing the stream
\* ------------------------------------------------------------------------
Op(op, n, v) == [op |-> op, n |-> n, v |-> v]
OpStr(v) == Op("STR", 0, v)
OpObj(cls) == Op("OBJ", 0, <<cls>>)
OpNone == Op("NONE", 0, <<>>)

\* a Field object: its class and its value
DumpField(cls, v) == <<OpObj(cls), OpStr(v)>>

\* an optional Field object
DumpOpt(cls, opt) == IF opt.some THEN DumpField(cls, opt.v) ELSE <<OpNone>>

RECURSIVE DumpPhones(_)
DumpPhones(phones) ==
  IF phones = <<>> THEN <<>>
  ELSE DumpField("Phone", Head(phones)) \o DumpPhones(Tail(phones))

RECURSIVE DumpStrs(_)
DumpStrs(texts) ==
  IF texts = <<>> THEN <<>>
  ELSE <<OpStr(Head(texts))>> \o DumpStrs(Tail(texts))

\* a Record object: its class and the attributes of its __dict__
DumpRecord(rec) ==
  <<OpObj("Record")>>
  \o DumpField("Name", rec.name)
  \o <<Op("LIST", Len(rec.phones), <<>>)>> \o DumpPhones(rec.phones)
  \o DumpOpt("Email", rec.email)
  \o DumpOpt("Address", rec.address)
  \o DumpOpt("Birthday", rec.birthday)
  \o (IF rec.notes.some THEN <<OpStr(rec.notes.v)>> ELSE <<OpNone>>)
  \o <<Op("LIST", Len(rec.tags), <<>>)>> \o DumpStrs(rec.tags)

RECURSIVE DumpEntries(_)
DumpEntries(d) ==
  IF d = <<>> THEN <<>>
  ELSE <<OpStr(d[1].key)>> \o DumpRecord(d[1].rec) \o DumpEntries(Tail(d))

\* pickle.dumps(self.data)
Dumps(d) ==
  <<Op("DICT", Len(d), <<>>)>> \o DumpEntries(d) \o <<Op("STOP", 0, <<>>)>>

\* the operation at position i of a stream, EOF past its end
At(b, i) == IF i >= 1 /\ i <= Len(b) THEN b[i] ELSE Op("EOF", 0, <<>>)

\* A parse result: whether it succeeded, the value read and the position
\* after it.
Parsed(val, next) == [ok |-> TRUE, val |-> val, next |-> next]
NoParse == [ok |-> FALSE, val |-> <<>>, next |-> 0]

LoadStr(b, i) ==
  IF At(b, i).op = "STR" THEN Parsed(At(b, i).v, i + 1) ELSE NoParse

LoadField(cls, b, i) ==
  IF At(b, i) = OpObj(cls) THEN LoadStr(b, i + 1) ELSE NoParse

LoadOpt(cls, b, i) ==
  IF At(b, i) = OpNone THEN Parsed(None, i + 1)
  ELSE LET r == LoadField(cls, b, i)
       IN IF r.ok THEN Parsed(Some(r.val), r.next) ELSE NoParse

LoadOptStr(b, i) ==
  IF At(b, i) = OpNone THEN Parsed(None, i + 1)
  ELSE LET r == LoadStr(b, i)
       IN IF r.ok THEN Parsed(Some(r.val), r.next) ELSE NoParse

RECURSIVE LoadPhones(_, _, _)
\* n Phone objects from position i
LoadPhones(b, i, n) ==
  IF n = 0 THEN Parsed(<<>>, i)
  ELSE LET r == LoadField("Phone", b, i)
       IN IF ~r.ok THEN NoParse
          ELSE LET rest == LoadPhones(b, r.next, n - 1)
               IN IF rest.ok THEN Parsed(<<r.val>> \o rest.val, rest.next)
                  ELSE NoParse

RECURSIVE LoadStrs(_, _, _)
LoadStrs(b, i, n) ==
  IF n = 0 THEN Parsed(<<>>, i)
  ELSE LET r == LoadStr(b, i)
       IN IF ~r.ok THEN NoParse
          ELSE LET rest == LoadStrs(b, r.next, n - 1)
               IN IF rest.ok THEN Parsed(<<r.val>> \o rest.val, rest.next)
                  ELSE NoParse

\* a list of n Phone objects at position i
LoadPhoneList(b, i) ==
  IF At(b, i).op = "LIST" THEN LoadPhones(b, i + 1, At(b, i).n) ELSE NoParse

\* a list of n str at position i
LoadStrList(b, i) ==
  IF At(b, i).op = "LIST" THEN LoadStrs(b, i + 1, At(b, i).n) ELSE NoParse

\* attribute number k of a Record, in the order of its __dict__
LoadAttr(b, i, k) ==
  CASE k = 1 -> LoadField("Name", b, i)
    [] k = 2 -> LoadPhoneList(b, i)
    [] k = 3 -> LoadOpt("Email", b, i)
    [] k = 4 -> LoadOpt("Address", b, i)
    [] k = 5 -> LoadOpt("Birthday", b, i)
    [] k = 6 -> LoadOptStr(b, i)
    [] OTHER -> LoadStrList(b, i)

SetAttr(rec, k, val) ==
  CASE k = 1 -> [rec EXCEPT !.name = val]
    [] k = 2 -> [rec EXCEPT !.phones = val]
    [] k = 3 -> [rec EXCEPT !.email = val]
    [] k = 4 -> [rec EXCEPT !.address = val]
    [] k = 5 -> [rec EXCEPT !.birthday = val]
    [] k = 6 -> [rec EXCEPT !.notes = val]
    [] OTHER -> [rec EXCEPT !.tags = val]

RECURSIVE LoadAttrs(_, _, _, _)
RECURSIVE LoadAttrsFrom(_, _, _, _)
\* the attributes from number k on, read from position i into rec
LoadAttrs(b, i, k, rec) ==
  IF k > 7 THEN Parsed(rec, i)
  ELSE LoadAttrsFrom(b, k, rec, LoadAttr(b, i, k))

\* attribute k has been read as r
LoadAttrsFrom(b, k, rec, r) ==
  IF ~r.ok THEN NoParse
  ELSE LoadAttrs(b, r.next, k + 1, SetAttr(rec, k, r.val))

\* a Record object: the object is made without __init__ and its __dict__
\* is set from the stream
LoadRecord(b, i) ==
  IF At(b, i) # OpObj("Record") THEN NoParse
  ELSE LoadAttrs(b, i + 1, 1, NewRecord(<<>>))

RECURSIVE LoadEntries(_, _, _)
RECURSIVE LoadEntriesFrom(_, _, _, _)
\* n dict entries from position i, set into the dict in stream order
LoadEntries(b, i, n) ==
  IF n = 0 THEN Parsed(<<>>, i)
  ELSE IF ~LoadStr(b, i).ok THEN NoParse
  ELSE LoadEntriesFrom(b, n, LoadStr(b, i).val, LoadRecord(b, i + 1))

\* the key of the first of n entries has been read, and its record as r
LoadEntriesFrom(b, n, key, r) ==
  IF ~r.ok THEN NoParse
  ELSE LET rest == LoadEntries(b, r.next, n - 1)
       IN IF ~rest.ok THEN NoParse
          ELSE Parsed(<<Entry(key, r.val)>> \o rest.val, rest.next)

\* pickle.loads(b): fails on a stream that is empty or cut short
Loads(b) ==
  IF At(b, 1).op # "DICT" THEN NoParse
  ELSE LET r == LoadEntries(b, 2, At(b, 1).n)
       IN IF r.ok /\ At(b, r.next).op = "STOP" THEN r ELSE NoParse

\* ------------------------------------------------------------------------
\* The command handlers.  A handler body yields the dict as it leaves it,
\* the class of the exception it raises ("" when it returns) and the text
\* it returns (the message of the exception when it raises).
\* ------------------------------------------------------------------------
Return(d, text) == [data |-> d, exc |-> "", ret |-> text]
Raise(d, exc, text) == [data |-> d, exc |-> exc, ret |-> text]

MsgNotFound == "Contact not found."
MsgMissing == "Invalid command or missing argument."

\* the ValueError of `a, b = args` (n names) for a list of another length
UnpackMsg(args, n) ==
  IF Len(args) > n
  THEN (IF n = 2 THEN "too many values to unpack (expected 2)"
        ELSE "too many values to unpack (expected 3)")
  ELSE IF n = 2
  THEN (IF Len(args) = 0
        THEN "not enough values to unpack (expected 2, got 0)"
        ELSE "not enough values to unpack (expected 2, got 1)")
  ELSE (IF Len(args) = 0
        THEN "not enough values to unpack (expected 3, got 0)"
        ELSE IF Len(args) = 1
        THEN "not enough values to unpack (expected 3, got 1)"
        ELSE "not enough values to unpack (expected 3, got 2)")

UnpackError(d, args, n) == Raise(d, "ValueError", <<UnpackMsg(args, n)>>)

\* args[0] of an empty list
IndexError(d) == Raise(d, "IndexError", <<"list index out of range">>)

\* the record under name becomes r.rec; the handler returns okmsg unless
\* the Record method raised
Apply(d, name, r, okmsg) ==
  IF r.err # "" THEN Raise(Update(d, name, r.rec), "ValueError", <<r.err>>)
  ELSE Return(Update(d, name, r.rec), <<okmsg>>)

\* the decorator: ValueError, KeyError and IndexError become return values
input_error(res) ==
  IF res.exc = "ValueError" THEN Return(res.data, res.ret)
  ELSE IF res.exc = "KeyError" THEN Return(res.data, <<MsgNotFound>>)
  ELSE IF res.exc = "IndexError" THEN Return(res.data, <<MsgMissing>>)
  ELSE res

add_contact_command(args, d) ==
  input_error(
    IF Len(args) # 2 THEN UnpackError(d, args, 2)
    ELSE LET r == add_phone(NewRecord(args[1]), args[2])
         IN IF r.err # "" THEN Raise(d, "ValueError", <<r.err>>)
            ELSE Return(add_record(d, r.rec), <<"Contact added.">>))

change_contact_command(args, d) ==
  input_error(
    IF Len(args) # 2 THEN UnpackError(d, args, 2)
    ELSE IF ~find(d, args[1]) THEN Return(d, <<MsgNotFound>>)
    ELSE LET record == GetItem(d, args[1])
         IN IF record.phones = <<>> THEN IndexError(d)
            ELSE Apply(d, args[1],
                       edit_phone(record, PyPhone(record.phones[1]), args[2]),
                       "Contact updated."))

delete_contact_command(args, d) ==
  input_error(
    IF args = <<>> THEN IndexError(d)
    ELSE Return(delete_contact(d, args[1]),
                <<"Contact '">> \o args[1] \o <<"' deleted.">>))

delete_email_command(args, d) ==
  input_error(
    IF args = <<>> THEN IndexError(d)
    ELSE Return(delete_email(d, args[1]),
                <<"Email for contact '">> \o args[1] \o <<"' deleted.">>))

delete_address_command(args, d) ==
  input_error(
    IF args = <<>> THEN IndexError(d)
    ELSE Return(delete_address(d, args[1]),
                <<"Address for contact '">> \o args[1] \o <<"' deleted.">>))

delete_phone_command(args, d) ==
  input_error(
    IF Len(args) # 2 THEN UnpackError(d, args, 2)
    ELSE Return(delete_phone(d, args[1], args[2]),
                <<"Phone number '">> \o args[2] \o <<"' for contact '">>
                \o args[1] \o <<"' deleted.">>))

delete_birthday_command(args, d) ==
  input_error(
    IF args = <<>> THEN IndexError(d)
    ELSE Return(delete_birthday(d, args[1]),
                <<"Birthday for contact '">> \o args[1] \o <<"' deleted.">>))

delete_all_tags_command(args, d) ==
  input_error(
    IF args = <<>> THEN IndexError(d)
    ELSE Return(delete_all_tags(d, args[1]),
                <<"All tags for contact '">> \o args[1] \o <<"' deleted.">>))

change_email_command(args, d) ==
  input_error(
    IF Len(args) # 2 THEN UnpackError(d, args, 2)
    ELSE IF ~find(d, args[1]) THEN Return(d, <<MsgNotFound>>)
    ELSE LET record == GetItem(d, args[1])
         IN IF record.email.some
            THEN Apply(d, args[1], edit_email(record, args[2]), "Email updated.")
            ELSE Apply(d, args[1], add_email(record, args[2]), "Email added."))

\* change_name_command that sets the new key without popping the old one
change_name_nopop(args, d) ==
  input_error(
    IF Len(args) # 2 THEN UnpackError(d, args, 2)
    ELSE IF ~find(d, args[1]) THEN Return(d, <<MsgNotFound>>)
    ELSE LET renamed == Update(d, args[1], edit_name(GetItem(d, args[1]), args[2]))
         IN Return(SetItem(renamed, args[2], GetItem(renamed, args[1])),
                   <<"Name updated.">>))

change_name_command(args, d) ==
  input_error(
    IF Len(args) # 2 THEN UnpackError(d, args, 2)
    ELSE IF ~find(d, args[1]) THEN Return(d, <<MsgNotFound>>)
    ELSE LET renamed == Update(d, args[1], edit_name(GetItem(d, args[1]), args[2]))
             popped == GetItem(renamed, args[1])
         IN Return(SetItem(DelItem(renamed, args[1]), args[2], popped),
                   <<"Name updated.">>))

change_address_command(args, d) ==
  input_error(
    IF Len(args) # 2 THEN UnpackError(d, args, 2)
    ELSE IF ~find(d, args[1]) THEN Return(d, <<MsgNotFound>>)
    ELSE LET record == GetItem(d, args[1])
         IN IF record.address.some
            THEN Apply(d, args[1], edit_address(record, args[2]), "Address updated.")
            ELSE Apply(d, args[1], add_address(record, args[2]), "Address added."))

change_phone_command(args, d) ==
  input_error(
    IF Len(args) # 3 THEN UnpackError(d, args, 3)
    ELSE IF ~find(d, args[1]) THEN Return(d, <<MsgNotFound>>)
    ELSE LET record == GetItem(d, args[1])
         IN IF find_phone(record, args[2])
            THEN Apply(d, args[1], edit_phone(record, PyStr(args[2]), args[3]),
                       "Phone number updated.")
            ELSE Apply(d, args[1], add_phone(record, args[3]),
                       "Phone number added."))

RECURSIVE RecordStrs(_)
RecordStrs(recs) ==
  IF recs = <<>> THEN <<>>
  ELSE <<RecordStr(Head(recs))>> \o RecordStrs(Tail(recs))

MsgNoTagged == "No contacts found with the specified tag."

search_by_tag_command(args, d) ==
  input_error(
    IF args = <<>> THEN IndexError(d)
    ELSE LET matching_records == search_by_tag(d, args[1])
         IN IF matching_records # <<>>
            THEN Return(d, Join(<<"\n">>, RecordStrs(matching_records)))
            ELSE Return(d, <<MsgNoTagged>>))

sort_by_tags_command(args, d) ==
  input_error(
    IF args = <<>> THEN IndexError(d)
    ELSE LET sorted_records == sort_by_tags(d, args[1])
         IN IF sorted_records # <<>>
            THEN Return(d, Join(<<"\n">>, RecordStrs(sorted_records)))
            ELSE Return(d, <<MsgNoTagged>>))

show_phone_command(args, d) ==
  input_error(
    IF args = <<>> THEN IndexError(d)
    ELSE IF find(d, args[1]) /\ GetItem(d, args[1]).phones # <<>>
    THEN Return(d, args[1] \o <<"'s phone: ">> \o GetItem(d, args[1]).phones[1])
    ELSE Return(d, <<"Contact not found or phone not specified.">>))

\* prints the table and returns None, shown here as the text of str(None)
show_all_command(args, d) == input_error(Return(d, <<"None">>))

add_birthday_command(args, d) ==
  input_error(
    IF Len(args) # 2 THEN UnpackError(d, args, 2)
    ELSE IF ~find(d, args[1]) THEN Return(d, <<MsgNotFound>>)
    ELSE Apply(d, args[1], add_birthday(GetItem(d, args[1]), args[2]),
               "Birthday added."))

show_birthday_command(args, d) ==
  input_error(
    IF args = <<>> THEN IndexError(d)
    ELSE IF find(d, args[1]) /\ GetItem(d, args[1]).birthday.some
    THEN Return(d, args[1] \o <<"'s birthday: ">> \o GetItem(d, args[1]).birthday.v)
    ELSE Return(d, <<"Contact not found or birthday not specified.">>))

\* now is the value of datetime.now() in get_birthdays_per_week
birthdays_command(args, d, now) ==
  input_error(
    LET upcoming_birthdays == get_birthdays_per_week(d, now)
    IN IF upcoming_birthdays # <<>>
       THEN Return(d, <<"Upcoming birthdays: ">> \o Join(<<", ">>, upcoming_birthdays))
       ELSE Return(d, <<"No upcoming birthdays.">>))

show_notes_command(args, d) ==
  input_error(
    IF args = <<>> THEN IndexError(d)
    ELSE IF /\ find(d, args[1])
            /\ GetItem(d, args[1]).notes.some
            /\ GetItem(d, args[1]).notes.v # <<>>
    THEN Return(d, args[1] \o <<"'s notes: ">> \o show_notes(GetItem(d, args[1])))
    ELSE Return(d, <<"Contact not found or notes not specified.">>))

add_notes_command(args, d) ==
  input_error(
    IF Len(args) # 2 THEN UnpackError(d, args, 2)
    ELSE IF ~find(d, args[1]) THEN Return(d, <<MsgNotFound>>)
    ELSE Return(Update(d, args[1], add_notes(GetItem(d, args[1]), args[2])),
                <<"Notes added.">>))

add_tag_command(args, d) ==
  input_error(
    IF Len(args) # 2 THEN UnpackError(d, args, 2)
    ELSE IF ~find(d, args[1]) THEN Return(d, <<MsgNotFound>>)
    ELSE Return(Update(d, args[1], add_tag(GetItem(d, args[1]), args[2])),
                <<"Tag added.">>))

show_tags_command(args, d) ==
  input_error(
    IF args = <<>> THEN IndexError(d)
    ELSE IF find(d, args[1]) /\ GetItem(d, args[1]).tags # <<>>
    THEN Return(d, args[1] \o <<"'s tags: ">> \o show_tags(GetItem(d, args[1])))
    ELSE Return(d, <<"Contact not found or tags not specified.">>))

\* ------------------------------------------------------------------------
\* The command words, as texts
\* ------------------------------------------------------------------------
\* the text of each command word, by the word with _ for -
Cmd ==
  [ close |-> <<"c","l","o","s","e">>,
    exit |-> <<"e","x","i","t">>,
    help |-> <<"h","e","l","p">>,
    hello |-> <<"h","e","l","l","o">>,
    add |-> <<"a","d","d">>,
    change |-> <<"c","h","a","n","g","e">>,
    search_by_tag |-> <<"s","e","a","r","c","h","-","b","y","-","t","a","g">>,
    sort_by_tags |-> <<"s","o","r","t","-","b","y","-","t","a","g","s">>,
    phone |-> <<"p","h","o","n","e">>,
    find_by_phone |-> <<"f","i","n","d","-","b","y","-","p","h","o","n","e">>,
    find_by_email |-> <<"f","i","n","d","-","b","y","-","e","m","a","i","l">>,
    all |-> <<"a","l","l">>,
    add_birthday |-> <<"a","d","d","-","b","i","r","t","h","d","a","y">>,
    show_birthday |-> <<"s","h","o","w","-","b","i","r","t","h","d","a","y">>,
    birthdays |-> <<"b","i","r","t","h","d","a","y","s">>,
    notes |-> <<"n","o","t","e","s">>,
    add_notes |-> <<"a","d","d","-","n","o","t","e","s">>,
    add_tag |-> <<"a","d","d","-","t","a","g">>,
    show_tags |-> <<"s","h","o","w","-","t","a","g","s">>,
    delete_contact |-> <<"d","e","l","e","t","e","-","c","o","n","t","a","c","t">>,
    delete_email |-> <<"d","e","l","e","t","e","-","e","m","a","i","l">>,
    delete_address |-> <<"d","e","l","e","t","e","-","a","d","d","r","e","s","s">>,
    delete_phone |-> <<"d","e","l","e","t","e","-","p","h","o","n","e">>,
    delete_birthday |-> <<"d","e","l","e","t","e","-","b","i","r","t","h","d","a","y">>,
    delete_all_tags |-> <<"d","e","l","e","t","e","-","a","l","l","-","t","a","g","s">>,
    save |-> <<"s","a","v","e">>,
    load |-> <<"l","o","a","d">>,
    change_email |-> <<"c","h","a","n","g","e","-","e","m","a","i","l">>,
    change_address |-> <<"c","h","a","n","g","e","-","a","d","d","r","e","s","s">>,
    change_name |-> <<"c","h","a","n","g","e","-","n","a","m","e">>,
    show_notes |-> <<"s","h","o","w","-","n","o","t","e","s">>,
    change_phone |-> <<"c","h","a","n","g","e","-","p","h","o","n","e">>,
    change_contact |-> <<"c","h","a","n","g","e","-","c","o","n","t","a","c","t">> ]

\* words typed in another case, and a word that is no command
Word ==
  [ upper_add |-> <<"A","D","D">>,
    mixed_add |-> <<"A","d","d">>,
    exit |-> <<"E","x","i","t">>,
    bogus |-> <<"b","o","g","u","s">> ]

\* str.lower on one character
LowerChar(c) ==
  CASE c = "A" -> "a"
    [] c = "B" -> "b"
    [] c = "C" -> "c"
    [] c = "D" -> "d"
    [] c = "E" -> "e"
    [] c = "F" -> "f"
    [] c = "G" -> "g"
    [] c = "H" -> "h"
    [] c = "I" -> "i"
    [] c = "J" -> "j"
    [] c = "K" -> "k"
    [] c = "L" -> "l"
    [] c = "M" -> "m"
    [] c = "N" -> "n"
    [] c = "O" -> "o"
    [] c = "P" -> "p"
    [] c = "Q" -> "q"
    [] c = "R" -> "r"
    [] c = "S" -> "s"
    [] c = "T" -> "t"
    [] c = "U" -> "u"
    [] c = "V" -> "v"
    [] c = "W" -> "w"
    [] c = "X" -> "x"
    [] c = "Y" -> "y"
    [] c = "Z" -> "z"
    [] OTHER -> c

\* cmd.strip().lower() of a token: a token of split() has no white space
lower(text) == [i \in 1..Len(text) |-> LowerChar(text[i])]

\* ------------------------------------------------------------------------
\* main: one pass of the loop on a line other than close, exit, save, load.
\* The result names the handler called, the dict it leaves, the text
\* printed, and the class of an exception that leaves the loop ("" if none).
\* ------------------------------------------------------------------------
Handled(op, res) ==
  [op |-> op, data |-> res.data, exc |-> res.exc, ret |-> res.ret]

\* find-by-phone and find-by-email are looked up in the loop itself, outside
\* input_error
FoundText(found) ==
  IF found[1] THEN <<"Contact found: ">> \o RecordStr(found[2])
  ELSE <<MsgNotFound>>

Dispatch(command, args, d, now) ==
  CASE command = Cmd.help -> Handled("show_help_command", Return(d, <<"help table">>))
    [] command = Cmd.hello -> Handled("", Return(d, <<"How can I help you?">>))
    [] command = Cmd.add -> Handled("add_contact_command", add_contact_command(args, d))
    [] command = Cmd.change -> Handled("change_contact_command", change_contact_command(args, d))
    [] command = Cmd.search_by_tag -> Handled("search_by_tag_command", search_by_tag_command(args, d))
    [] command = Cmd.sort_by_tags -> Handled("sort_by_tags_command", sort_by_tags_command(args, d))
    [] command = Cmd.phone -> Handled("show_phone_command", show_phone_command(args, d))
    [] command = Cmd.find_by_phone ->
         Handled("find_by_phone",
                 IF args = <<>> THEN IndexError(d)
                 ELSE Return(d, FoundText(find_by_phone(d, args[1]))))
    [] command = Cmd.find_by_email ->
         Handled("find_by_email",
                 IF args = <<>> THEN IndexError(d)
                 ELSE Return(d, FoundText(find_by_email(d, args[1]))))
    [] command = Cmd.all -> Handled("show_all_command", show_all_command(args, d))
    [] command = Cmd.add_birthday -> Handled("add_birthday_command", add_birthday_command(args, d))
    [] command = Cmd.show_birthday -> Handled("show_birthday_command", show_birthday_command(args, d))
    [] command = Cmd.birthdays -> Handled("birthdays_command", birthdays_command(args, d, now))
    [] command = Cmd.notes -> Handled("show_notes_command", show_notes_command(args, d))
    [] command = Cmd.add_notes -> Handled("add_notes_command", add_notes_command(args, d))
    [] command = Cmd.add_tag -> Handled("add_tag_command", add_tag_command(args, d))
    [] command = Cmd.show_tags -> Handled("show_tags_command", show_tags_command(args, d))
    [] command = Cmd.delete_contact -> Handled("delete_contact_command", delete_contact_command(args, d))
    [] command = Cmd.delete_email -> Handled("delete_email_command", delete_email_command(args, d))
    [] command = Cmd.delete_address -> Handled("delete_address_command", delete_address_command(args, d))
    [] command = Cmd.delete_phone -> Handled("delete_phone_command", delete_phone_command(args, d))
    [] command = Cmd.delete_birthday -> Handled("delete_birthday_command", delete_birthday_command(args, d))
    [] command = Cmd.delete_all_tags -> Handled("delete_all_tags_command", delete_all_tags_command(args, d))
    [] OTHER -> Handled("", Return(d, <<"Invalid command.">>))

\* parse_input that leaves the command as typed
parse_input_keep(line) ==
  IF line = <<>> THEN <<FALSE, <<>>, <<>>>>
  ELSE <<TRUE, Head(line), Tail(line)>>

\* parse_input: the line is given as the tokens of user_input.split(); the
\* result is <<ok, cmd, args>>, not ok when `cmd, *args = []` raises
parse_input(line) ==
  IF line = <<>> THEN <<FALSE, <<>>, <<>>>>
  ELSE <<TRUE, lower(Head(line)), Tail(line)>>

\* ------------------------------------------------------------------------
\* Files
\* ------------------------------------------------------------------------
NoFile == [exists |-> FALSE, bytes |-> <<>>]
FileOf(bytes) == [exists |-> TRUE, bytes |-> bytes]

RECURSIVE UpdateFrom(_, _)
\* d.update(loaded)
UpdateFrom(d, loaded) ==
  IF loaded = <<>> THEN d
  ELSE UpdateFrom(SetItem(d, loaded[1].key, loaded[1].rec), Tail(loaded))

\* load_from_file that updates the dict with what it read
load_from_file_update(d, file) ==
  IF ~file.exists THEN Return(<<>>, <<>>)
  ELSE LET r == Loads(file.bytes)
       IN IF r.ok THEN Return(UpdateFrom(d, r.val), <<>>)
          ELSE Raise(d, "UnpicklingError", <<"pickle data was truncated">>)

\* load_from_file that empties the dict before it reads the file
load_from_file_clear(d, file) ==
  IF ~file.exists THEN Return(<<>>, <<>>)
  ELSE LET r == Loads(file.bytes)
       IN IF r.ok THEN Return(r.val, <<>>)
          ELSE Raise(<<>>, "UnpicklingError", <<"pickle data was truncated">>)

\* load_from_file on the file content: the dict afterwards and the class of
\* the exception that pickle.load raises ("" if none)
load_from_file(d, file) ==
  IF ~file.exists THEN Return(<<>>, <<>>)
  ELSE LET r == Loads(file.bytes)
       IN IF r.ok THEN Return(r.val, <<>>)
          ELSE IF file.bytes = <<>> THEN Raise(d, "EOFError", <<"Ran out of input">>)
          ELSE Raise(d, "UnpicklingError", <<"pickle data was truncated">>)

\* the lengths at which a write of len operations may be cut short
CutPoints(len) == {0, len \div 2, len - 1}

\* ------------------------------------------------------------------------
\* Inputs of the operations
\* ------------------------------------------------------------------------
\* argument lists of a handler taking a name and a value of V
ArgsNameValue(V) ==
  {<<>>, <<NameA>>} \cup {<<n, v>> : n \in Names, v \in V}
  \cup {<<NameA, NameA, NameA>>}

\* argument lists of a handler taking a name
ArgsName == {<<>>, <<NameA>>, <<NameB>>}

ArgsTag == {<<>>, <<TagT>>}

ArgsChangePhone ==
  {<<>>, <<NameA>>, <<NameA, PhoneA>>}
  \cup {<<NameA, o, p>> : o \in {PhoneA, PhoneB}, p \in {PhoneB, PhoneBad}}

Day20240101 == DayNumber(2024, 1, 1)
\* datetime.now(): 01.01.2024 at midnight and at noon
Nows == {Instant(Day20240101, 0), Instant(Day20240101, 43200)}

Lines ==
  { <<>>, <<Cmd.close>>, <<Word.exit>>, <<Cmd.help>>, <<Cmd.hello>>,
    <<Cmd.add, NameA, PhoneA>>, <<Word.upper_add, NameB, PhoneB>>,
    <<Word.mixed_add, NameB, PhoneA>>,
    <<Cmd.add, NameA, PhoneBad>>, <<Cmd.add, NameA>>,
    <<Cmd.change, NameA, PhoneB>>,
    <<Cmd.search_by_tag, TagT>>, <<Cmd.sort_by_tags, TagT>>,
    <<Cmd.phone, NameA>>, <<Cmd.phone>>,
    <<Cmd.find_by_phone, PhoneA>>, <<Cmd.find_by_phone>>,
    <<Cmd.find_by_email, EmailOk>>, <<Cmd.find_by_email>>,
    <<Cmd.all>>,
    <<Cmd.add_birthday, NameA, BdayOk>>, <<Cmd.show_birthday, NameA>>,
    <<Cmd.birthdays>>,
    <<Cmd.notes, NameA>>, <<Cmd.add_notes, NameA, NoteN>>,
    <<Cmd.add_tag, NameA, TagT>>, <<Cmd.show_tags, NameA>>,
    <<Cmd.delete_contact, NameA>>, <<Cmd.delete_email, NameA>>,
    <<Cmd.delete_address, NameA>>, <<Cmd.delete_phone, NameA, PhoneA>>,
    <<Cmd.delete_birthday, NameA>>, <<Cmd.delete_all_tags, NameA>>,
    <<Cmd.save>>, <<Cmd.load>>,
    <<Cmd.change_email, NameA, EmailOk>>, <<Cmd.change_address, NameA, AddrX>>,
    <<Cmd.change_name, NameA, NameB>>, <<Cmd.show_notes, NameA>>,
    <<Cmd.change_phone, NameA, PhoneA, PhoneB>>,
    <<Cmd.change_contact, NameA, PhoneB>>,
    <<Word.bogus>> }

\* ------------------------------------------------------------------------
\* State
\* ------------------------------------------------------------------------
VARIABLES
  data,    \* book.data: the entries of the dict in iteration order
  files,   \* the content of each file
  saving,  \* the save_to_file call in progress, between open and close
  loop,    \* main: "running", "exited" (break) or "crashed" (exception)
  last,    \* the last operation: how it was reached, its input and outcome
  prev,    \* book.data before the last operation
  saved,   \* per file, the dict that the last completed save wrote to it
  steps    \* number of operations started

vars == <<data, files, saving, loop, last, prev, saved, steps>>

NotSaving == [active |-> FALSE, file |-> <<>>, via |-> ""]

\* now is the datetime.now() that the operation read, NoInstant if none
NoInstant == Instant(0, 0)

Last(via, op, args, ret, exc, line) ==
  [via |-> via, op |-> op, args |-> args, ret |-> ret, exc |-> exc,
   line |-> line, now |-> NoInstant]

\* a book that an earlier run of the program built and saved
EarlierBook ==
  LET b1 == add_contact_command(<<NameB, PhoneB>>, <<>>).data
      b2 == add_tag_command(<<NameB, TagT>>, b1).data
      b3 == add_contact_command(<<NameA, PhoneA>>, b2).data
      b4 == change_email_command(<<NameA, EmailOk>>, b3).data
      b5 == add_birthday_command(<<NameA, BdayOk>>, b4).data
      b6 == add_notes_command(<<NameA, NoteN>>, b5).data
  IN change_address_command(<<NameA, AddrX>>, b6).data

\* the program starts with an empty AddressBook; the file is absent, or
\* holds what an earlier run saved
Init ==
  /\ data = <<>>
  /\ files \in [FileNames -> {NoFile, FileOf(Dumps(EarlierBook))}]
  /\ saving = NotSaving
  /\ loop = "running"
  /\ last = Last("", "", <<>>, <<>>, "", <<>>)
  /\ prev = <<>>
  /\ saved = [f \in FileNames |-> IF files[f].exists THEN EarlierBook ELSE <<>>]
  /\ steps = 0

\* a handler is called with args and the book
Call(op, args, res) ==
  /\ ~saving.active
  /\ steps < MaxSteps
  /\ data' = res.data
  /\ prev' = data
  /\ last' = Last("call", op, args, res.ret, res.exc, <<>>)
  /\ steps' = steps + 1
  /\ UNCHANGED <<files, saving, loop, saved>>

AddContact ==
  \E args \in ArgsNameValue(PhoneTexts) :
    Call("add_contact_command", args, add_contact_command(args, data))

ChangeContact ==
  \E args \in ArgsNameValue({PhoneA, PhoneB, PhoneBad}) :
    Call("change_contact_command", args, change_contact_command(args, data))

DeleteContact ==
  \E args \in ArgsName :
    Call("delete_contact_command", args, delete_contact_command(args, data))

DeleteEmail ==
  \E args \in ArgsName :
    Call("delete_email_command", args, delete_email_command(args, data))

DeleteAddress ==
  \E args \in ArgsName :
    Call("delete_address_command", args, delete_address_command(args, data))

DeletePhone ==
  \E args \in ArgsNameValue({PhoneA, PhoneB}) :
    Call("delete_phone_command", args, delete_phone_command(args, data))

DeleteBirthday ==
  \E args \in ArgsName :
    Call("delete_birthday_command", args, delete_birthday_command(args, data))

DeleteAllTags ==
  \E args \in ArgsName :
    Call("delete_all_tags_command", args, delete_all_tags_command(args, data))

ChangeEmail ==
  \E args \in ArgsNameValue(EmailTexts) :
    Call("change_email_command", args, change_email_command(args, data))

ChangeName ==
  \E args \in ArgsNameValue(Names) :
    Call("change_name_command", args, change_name_command(args, data))

ChangeAddress ==
  \E args \in ArgsNameValue({AddrX}) :
    Call("change_address_command", args, change_address_command(args, data))

ChangePhone ==
  \E args \in ArgsChangePhone :
    Call("change_phone_command", args, change_phone_command(args, data))

SearchByTag ==
  \E args \in ArgsTag :
    Call("search_by_tag_command", args, search_by_tag_command(args, data))

SortByTags ==
  \E args \in ArgsTag :
    Call("sort_by_tags_command", args, sort_by_tags_command(args, data))

ShowPhone ==
  \E args \in ArgsName :
    Call("show_phone_command", args, show_phone_command(args, data))

ShowAll == Call("show_all_command", <<>>, show_all_command(<<>>, data))

AddBirthday ==
  \E args \in ArgsNameValue(BdayTexts) :
    Call("add_birthday_command", args, add_birthday_command(args, data))

ShowBirthday ==
  \E args \in ArgsName :
    Call("show_birthday_command", args, show_birthday_command(args, data))

Birthdays ==
  \E now \in Nows :
    LET res == birthdays_command(<<>>, data, now)
    IN /\ ~saving.active
       /\ steps < MaxSteps
       /\ data' = res.data
       /\ prev' = data
       /\ last' = [Last("call", "birthdays_command", <<>>, res.ret, res.exc, <<>>)
                     EXCEPT !.now = now]
       /\ steps' = steps + 1
       /\ UNCHANGED <<files, saving, loop, saved>>

ShowNotes ==
  \E args \in ArgsName :
    Call("show_notes_command", args, show_notes_command(args, data))

AddNotes ==
  \E args \in ArgsNameValue({NoteN}) :
    Call("add_notes_command", args, add_notes_command(args, data))

AddTag ==
  \E args \in ArgsNameValue({TagT}) :
    Call("add_tag_command", args, add_tag_command(args, data))

ShowTags ==
  \E args \in ArgsName :
    Call("show_tags_command", args, show_tags_command(args, data))

\* save_to_file(f): open(f, 'wb') creates the file or truncates it
SaveOpen ==
  \E f \in FileNames :
    /\ ~saving.active
    /\ steps < MaxSteps
    /\ files' = [files EXCEPT ![f] = FileOf(<<>>)]
    /\ saving' = [active |-> TRUE, file |-> f, via |-> "call"]
    /\ prev' = data
    /\ last' = Last("call", "open", <<f>>, <<>>, "", <<>>)
    /\ steps' = steps + 1
    /\ UNCHANGED <<data, loop, saved>>

\* pickle.dump writes the whole dict and the file is closed; in main the
\* loop then prints its message
SaveDump ==
  /\ saving.active
  /\ files' = [files EXCEPT ![saving.file] = FileOf(Dumps(data))]
  /\ saving' = NotSaving
  /\ prev' = data
  /\ last' = Last(saving.via, "save_to_file", <<saving.file>>,
                  IF saving.via = "main" THEN <<"Address book saved.">> ELSE <<>>,
                  "", last.line)
  /\ saved' = [saved EXCEPT ![saving.file] = data]
  /\ UNCHANGED <<data, loop, steps>>

\* the write fails or is interrupted after k operations: the exception
\* leaves save_to_file, and leaves main when main made the call
SaveInterrupt ==
  \E k \in CutPoints(Len(Dumps(data))) :
    /\ saving.active
    /\ files' = [files EXCEPT ![saving.file] = FileOf(SubSeq(Dumps(data), 1, k))]
    /\ saving' = NotSaving
    /\ loop' = IF saving.via = "main" THEN "crashed" ELSE loop
    /\ prev' = data
    /\ last' = Last(saving.via, "save_to_file", <<saving.file>>, <<>>,
                    "OSError", last.line)
    /\ UNCHANGED <<data, saved, steps>>

\* load_from_file(f)
Load ==
  \E f \in FileNames :
    LET res == load_from_file(data, files[f])
    IN /\ ~saving.active
       /\ steps < MaxSteps
       /\ data' = res.data
       /\ prev' = data
       /\ last' = Last("call", "load_from_file", <<f>>, res.ret, res.exc, <<>>)
       /\ steps' = steps + 1
       /\ UNCHANGED <<files, saving, loop, saved>>

\* main reads a line that parse_input rejects, that ends the loop, or that
\* it dispatches
MainCommand ==
  \E line \in Lines \ {<<Cmd.save>>, <<Cmd.load>>} : \E now \in Nows :
    LET p == parse_input(line)
        res == IF ~p[1]
               THEN Handled("parse_input",
                      Raise(data, "ValueError",
                        <<"not enough values to unpack (expected at least 1, got 0)">>))
               ELSE IF p[2] \in {Cmd.close, Cmd.exit}
               THEN Handled("", Return(data, <<"Goodbye!">>))
               ELSE Dispatch(p[2], p[3], data, now)
    IN /\ loop = "running"
       /\ ~saving.active
       /\ steps < MaxSteps
       /\ (p[1] /\ p[2] = Cmd.birthdays) \/ now = Instant(Day20240101, 0)
       /\ data' = res.data
       /\ loop' = IF res.exc # "" THEN "crashed"
                  ELSE IF p[1] /\ p[2] \in {Cmd.close, Cmd.exit} THEN "exited"
                  ELSE "running"
       /\ prev' = data
       /\ last' = [Last("main", res.op, IF p[1] THEN p[3] ELSE <<>>, res.ret,
                        res.exc, line)
                     EXCEPT !.now = IF res.op = "birthdays_command" THEN now
                                    ELSE NoInstant]
       /\ steps' = steps + 1
       /\ UNCHANGED <<files, saving, saved>>

\* main reads save, asks for the file name and calls save_to_file
MainSave ==
  \E f \in FileNames :
    /\ loop = "running"
    /\ ~saving.active
    /\ steps < MaxSteps
    /\ files' = [files EXCEPT ![f] = FileOf(<<>>)]
    /\ saving' = [active |-> TRUE, file |-> f, via |-> "main"]
    /\ prev' = data
    /\ last' = Last("main", "open", <<f>>, <<>>, "", <<Cmd.save>>)
    /\ steps' = steps + 1
    /\ UNCHANGED <<data, loop, saved>>

\* main reads load, asks for the file name and calls load_from_file
MainLoad ==
  \E f \in FileNames :
    LET res == load_from_file(data, files[f])
    IN /\ loop = "running"
       /\ ~saving.active
       /\ steps < MaxSteps
       /\ data' = res.data
       /\ loop' = IF res.exc # "" THEN "crashed" ELSE "running"
       /\ prev' = data
       /\ last' = Last("main", "load_from_file", <<f>>,
                       IF res.exc = "" THEN <<"Address book loaded.">> ELSE res.ret,
                       res.exc, <<Cmd.load>>)
       /\ steps' = steps + 1
       /\ UNCHANGED <<files, saving, saved>>

\* record.edit_phone(old, new) on a record of the book, old and new texts
EditPhone ==
  \E name \in Names, old \in {PhoneA, PhoneB}, new \in {PhoneA, PhoneB, PhoneBad} :
    /\ find(data, name)
    /\ ~saving.active
    /\ steps < MaxSteps
    /\ LET r == edit_phone(GetItem(data, name), PyStr(old), new)
       IN /\ data' = Update(data, name, r.rec)
          /\ last' = Last("record", "edit_phone", <<name, old, new>>,
                          IF r.err = "" THEN <<>> ELSE <<r.err>>,
                          IF r.err = "" THEN "" ELSE "ValueError", <<>>)
    /\ prev' = data
    /\ steps' = steps + 1
    /\ UNCHANGED <<files, saving, loop, saved>>

\* Email(value): the field, or ValueError("Invalid email format.")
MakeEmail ==
  \E value \in UNION {[1..n -> {"a", "@", "."}] : n \in 0..MaxEmailLen} :
    /\ ~saving.active
    /\ steps < MaxSteps
    /\ last' = IF EmailOkay(value)
               THEN Last("field", "Email", <<value>>, value, "", <<>>)
               ELSE Last("field", "Email", <<value>>, <<MsgEmail>>, "ValueError", <<>>)
    /\ prev' = data
    /\ steps' = steps + 1
    /\ UNCHANGED <<data, files, saving, loop, saved>>

Next ==
  \/ AddContact \/ ChangeContact \/ DeleteContact \/ DeleteEmail
  \/ DeleteAddress \/ DeletePhone \/ DeleteBirthday \/ DeleteAllTags
  \/ ChangeEmail \/ ChangeName \/ ChangeAddress \/ ChangePhone
  \/ SearchByTag \/ SortByTags \/ ShowPhone \/ ShowAll
  \/ AddBirthday \/ ShowBirthday \/ Birthdays
  \/ ShowNotes \/ AddNotes \/ AddTag \/ ShowTags
  \/ SaveOpen \/ SaveDump \/ SaveInterrupt \/ Load

\* the handlers and the AddressBook called with any arguments
Spec == Init /\ [][Next]_vars

MainNext == MainCommand \/ MainSave \/ MainLoad \/ SaveDump \/ SaveInterrupt

\* the program as run: main reads lines until it ends
MainSpec == Init /\ [][MainNext]_vars

\* ------------------------------------------------------------------------
\* Properties
\* ------------------------------------------------------------------------
\* the last operation was a call of handler op that returned text
Returned(op, text) == last.op = op /\ last.exc = "" /\ last.ret = <<text>>

\* no two entries of the dict have the same key
KeysUnique(d) ==
  \A i \in 1..Len(d) : \A j \in 1..Len(d) : d[i].key = d[j].key => i = j

\* C1: in every reachable state every entry of the store satisfies
\* key == record.name.value
C1_KeyIsName == \A i \in 1..Len(data) : data[i].key = data[i].rec.name

\* a contact has been renamed and the store holds two contacts
C1_Witness ==
  /\ Returned("change_name_command", "Name updated.")
  /\ last.args[1] # last.args[2]
  /\ Len(prev) = 2

\* the contact that change_name_command renamed, as it was before
RenamedBefore == GetItem(prev, last.args[1])

\* no record is found under two keys: the keys are distinct and so are the
\* names of the records
OneKeyPerRecord(d) ==
  /\ KeysUnique(d)
  /\ \A i \in 1..Len(d) : \A j \in 1..Len(d) :
       d[i].rec.name = d[j].rec.name => i = j

\* C2 as stated: after change_name_command([old, new]) returns
\* "Name updated.", find(new) is the renamed record, find(old) is absent and
\* no record is reachable under two keys
C2_Original ==
  Returned("change_name_command", "Name updated.") =>
    /\ find(data, last.args[2])
    /\ GetItem(data, last.args[2]) = edit_name(RenamedBefore, last.args[2])
    /\ ~find(data, last.args[1])
    /\ OneKeyPerRecord(data)

\* C2 as amended: after change_name_command([old, new]) returns
\* "Name updated.", find(new) is the renamed record, find(old) is absent
\* when new differs from old, and no record is reachable under two keys
C2_Renamed ==
  Returned("change_name_command", "Name updated.") =>
    /\ find(data, last.args[2])
    /\ GetItem(data, last.args[2]) = edit_name(RenamedBefore, last.args[2])
    /\ (last.args[1] # last.args[2] => ~find(data, last.args[1]))
    /\ OneKeyPerRecord(data)

\* a contact has been renamed to a name that was not its own
C2_Witness ==
  /\ Returned("change_name_command", "Name updated.")
  /\ last.args[1] # last.args[2]
  /\ find(data, last.args[2])

\* the number of arguments that the handler unpacks or indexes
Required(op) ==
  CASE op \in {"add_contact_command", "change_contact_command",
               "delete_phone_command", "change_email_command",
               "change_name_command", "change_address_command",
               "add_birthday_command", "add_notes_command",
               "add_tag_command"} -> 2
    [] op = "change_phone_command" -> 3
    [] op \in {"show_all_command", "birthdays_command"} -> 0
    [] OTHER -> 1

\* the last operation was a call of an input_error-wrapped handler
HandlerCalled == last.via = "call" /\ last.op \notin {"", "open", "save_to_file", "load_from_file"}

\* C3: a wrapped handler called with fewer arguments than it requires
\* returns "Invalid command or missing argument." and leaves the
\* AddressBook unchanged
C3_Claim ==
  (HandlerCalled /\ Len(last.args) < Required(last.op)) =>
    /\ last.exc = ""
    /\ last.ret = <<MsgMissing>>
    /\ data = prev

\* exactly 10 decimal digits
TenDecimalDigits(text) == Len(text) = 10 /\ AllDecimal(text)

\* C4: `change name phone` for a contact with at least one phone and a
\* valid 10-digit phone makes the new phone the record's first phone,
\* leaves the number of phones unchanged, and `phone name` renders the new
\* phone
C4_Claim ==
  ( /\ last.op = "change_contact_command"
    /\ Len(last.args) = 2
    /\ find(prev, last.args[1])
    /\ GetItem(prev, last.args[1]).phones # <<>>
    /\ TenDecimalDigits(last.args[2]) ) =>
    /\ find(data, last.args[1])
    /\ GetItem(data, last.args[1]).phones[1] = last.args[2]
    /\ Len(GetItem(data, last.args[1]).phones)
         = Len(GetItem(prev, last.args[1]).phones)
    /\ show_phone_command(<<last.args[1]>>, data).ret
         = last.args[1] \o <<"'s phone: ">> \o last.args[2]

\* the mutation handlers that name a contact
NamingHandlers ==
  {"change_contact_command", "change_email_command", "change_address_command",
   "change_name_command", "add_birthday_command", "add_notes_command",
   "add_tag_command", "delete_email_command", "delete_address_command",
   "delete_phone_command", "delete_birthday_command",
   "delete_all_tags_command"}

\* C5: a mutation handler that names a contact, called with a name that is
\* not a key of the store, returns "Contact not found." and leaves the store
\* unchanged
C5_Claim ==
  ( /\ last.op \in NamingHandlers
    /\ Len(last.args) = Required(last.op)
    /\ ~find(prev, last.args[1]) ) =>
    /\ Returned(last.op, MsgNotFound)
    /\ data = prev

\* C6: the main loop ends only after a line whose lower-cased first token is
\* close or exit
C6_Claim ==
  loop # "running" =>
    /\ last.line # <<>>
    /\ lower(Head(last.line)) \in {Cmd.close, Cmd.exit}

\* the command surface as documented, without the words that end the loop
DocumentedCommands ==
  {Cmd.add, Cmd.change, Cmd.change_name, Cmd.change_email, Cmd.change_address,
   Cmd.add_birthday, Cmd.show_birthday, Cmd.add_notes, Cmd.show_notes,
   Cmd.add_tag, Cmd.show_tags, Cmd.delete_contact, Cmd.delete_email,
   Cmd.delete_address, Cmd.delete_phone, Cmd.delete_birthday,
   Cmd.delete_all_tags, Cmd.search_by_tag, Cmd.sort_by_tags,
   Cmd.find_by_phone, Cmd.find_by_email, Cmd.phone, Cmd.all, Cmd.birthdays,
   Cmd.save, Cmd.load, Cmd.help, Cmd.hello}

\* C7: every documented command is dispatched to its handler: none yields
\* "Invalid command.", and change-email, change-address and change-name on a
\* contact in the store set the field or re-key the contact
C7_Claim ==
  ( /\ last.via = "main"
    /\ last.line # <<>>
    /\ lower(Head(last.line)) \in DocumentedCommands ) =>
    /\ last.ret # <<"Invalid command.">>
    /\ (lower(Head(last.line)) = Cmd.change_email /\ find(prev, NameA)
          => GetItem(data, NameA).email = Some(EmailOk))
    /\ (lower(Head(last.line)) = Cmd.change_address /\ find(prev, NameA)
          => GetItem(data, NameA).address = Some(AddrX))
    /\ (lower(Head(last.line)) = Cmd.change_name /\ find(prev, NameA)
          => find(data, NameB) /\ ~find(data, NameA))

\* C8: `add name phone` with a phone text that is not exactly 10 decimal
\* digits returns the 10-digit validation message and leaves the store
\* unchanged
C8_Claim ==
  ( /\ last.op = "add_contact_command"
    /\ Len(last.args) = 2
    /\ ~TenDecimalDigits(last.args[2]) ) =>
    /\ Returned("add_contact_command", MsgPhone)
    /\ data = prev

\* C9: at every point of a save_to_file execution the destination file is
\* absent or holds a complete serialized mapping, never an empty or partial
\* one, and the in-memory mapping is unchanged by save
C9_Claim ==
  /\ \A f \in FileNames : files[f].exists => Loads(files[f].bytes).ok
  /\ (last.op \in {"open", "save_to_file"} => data = prev)

\* C10: load_from_file(f) after save_to_file(f) yields the store that was
\* saved: the same keys in the same order and, per record, equal name,
\* phones, email, address, birthday, notes and tags
C10_RoundTrip ==
  ( /\ last.op = "load_from_file"
    /\ last.exc = ""
    /\ files[last.args[1]].exists ) =>
    data = saved[last.args[1]]

\* a store saved by this run has been loaded back
C10_Witness ==
  /\ last.op = "load_from_file"
  /\ last.exc = ""
  /\ files[last.args[1]].exists
  /\ data # <<>>
  /\ data # EarlierBook

\* C11: load_from_file on a file that does not exist raises nothing and
\* leaves an empty mapping whatever the mapping held; on a file that exists
\* the mapping is replaced by what was read, and a failing read leaves the
\* prior mapping as it was
C11_Load ==
  last.op = "load_from_file" =>
    LET file == files[last.args[1]]
    IN /\ (~file.exists => last.exc = "" /\ data = <<>>)
       /\ (file.exists /\ last.exc = "" =>
             Loads(file.bytes).ok /\ data = Loads(file.bytes).val)
       /\ (last.exc # "" => file.exists /\ data = prev)

\* a read has failed on a book that held a contact
C11_Witness ==
  /\ last.op = "load_from_file"
  /\ last.exc # ""
  /\ prev # <<>>


\* ---------------------------------------------------------------------
\* Books built by earlier commands
\* ---------------------------------------------------------------------

\* the program holding a book that earlier commands built, no file written
StartFrom(books) ==
  /\ data \in books
  /\ files = [f \in FileNames |-> NoFile]
  /\ saving = NotSaving
  /\ loop = "running"
  /\ last = Last("", "", <<>>, <<>>, "", <<>>)
  /\ prev = data
  /\ saved = [f \in FileNames |-> <<>>]
  /\ steps = 0

\* add n1 then n2
TwoContacts(n1, n2) ==
  add_contact_command(<<n2, PhoneB>>,
                      add_contact_command(<<n1, PhoneA>>, <<>>).data).data

\* ---------------------------------------------------------------------
\* C12  upcoming birthdays
\* ---------------------------------------------------------------------

Bday01   == <<"0","1",".","0","1",".","2","0","2","4">>
Bday08   == <<"0","8",".","0","1",".","2","0","2","4">>
Bday10   == <<"1","0",".","0","1",".","2","0","2","4">>
Bday2023 == <<"0","3",".","0","1",".","2","0","2","3">>
BdayEve  == <<"3","1",".","1","2",".","2","0","2","3">>
BdaySamples == {BdayOk, Bday01, Bday08, Bday10, Bday2023, BdayEve}

\* add-birthday name text, or nothing when text is empty
WithBirthday(d, name, text) ==
  IF text = <<>> THEN d ELSE add_birthday_command(<<name, text>>, d).data

BirthdayBooks ==
  {WithBirthday(WithBirthday(TwoContacts(n1, n2), n1, b1), n2, b2) :
     <<n1, n2, b1, b2>> \in
       {q \in Names \X Names \X (BdaySamples \cup {<<>>})
                    \X (BdaySamples \cup {<<>>}) : q[1] # q[2]}}

\* birthdays asked of books whose birthdays lie around the week's ends
BirthdaySpec ==
  StartFrom(BirthdayBooks) /\ [][Birthdays \/ AddBirthday \/ DeleteBirthday]_vars

\* days from the instant's day to the birthday's day
DaysUntil(rec, now) ==
  LET t == strptime(rec.birthday.v)
  IN DayNumber(t[2], t[3], t[4]) - now.day

\* the birthday's midnight lies in [now, now + 7 days)
Qualifies(rec, now) ==
  /\ rec.birthday.some
  /\ IF now.secs = 0 THEN DaysUntil(rec, now) \in 0..6
                     ELSE DaysUntil(rec, now) \in 1..7

RECURSIVE UpcomingNames(_, _)
UpcomingNames(d, now) ==
  IF d = <<>> THEN <<>>
  ELSE IF Qualifies(d[1].rec, now)
       THEN <<d[1].rec.name>> \o UpcomingNames(Tail(d), now)
       ELSE UpcomingNames(Tail(d), now)

Listed(name, ret) ==
  \E i \in 1..Len(ret) : \E j \in i..Len(ret) :
    SubSeq(ret, i, j) = name

\* C12: birthdays lists exactly the names of the records whose birthday, at
\* midnight and in its stored year, lies in [now, now + 7 days), in the order
\* of the store; on 01.01.2024 a birthday 03.01.2024 is listed, 10.01.2024
\* and 03.01.2023 are not.
C12_Upcoming ==
  last.op = "birthdays_command" =>
    LET names == UpcomingNames(data, last.now)
    IN /\ last.exc = ""
       /\ data = prev
       /\ last.ret = IF names = <<>> THEN <<"No upcoming birthdays.">>
                     ELSE <<"Upcoming birthdays: ">> \o Join(<<", ">>, names)
       /\ last.now.day = Day20240101 =>
            \A i \in 1..Len(data) :
              LET rec == data[i].rec
              IN /\ rec.birthday = Some(BdayOk) => Listed(rec.name, last.ret)
                 /\ rec.birthday \in {Some(Bday10), Some(Bday2023)} =>
                      ~Listed(rec.name, last.ret)

C12_Witness ==
  /\ last.op = "birthdays_command"
  /\ last.now = Instant(Day20240101, 0)
  /\ Len(data) = 2
  /\ data[1].rec.birthday = Some(Bday10)
  /\ data[2].rec.birthday = Some(BdayOk)
  /\ last.ret = <<"Upcoming birthdays: ">> \o data[2].rec.name


\* ---------------------------------------------------------------------
\* C13  sort-by-tags
\* ---------------------------------------------------------------------

TagU == <<"u">>

\* add-tag name text, or nothing when text is empty
WithTag(d, name, text) ==
  IF text = <<>> THEN d ELSE add_tag_command(<<name, text>>, d).data

\* add n1 .. n4 in this order, each with the tag given for it
FourContacts(n, t) ==
  LET d1 == WithTag(add_contact_command(<<n[1], PhoneA>>, <<>>).data, n[1], t[1])
      d2 == WithTag(add_contact_command(<<n[2], PhoneA>>, d1).data, n[2], t[2])
      d3 == WithTag(add_contact_command(<<n[3], PhoneA>>, d2).data, n[3], t[3])
  IN WithTag(add_contact_command(<<n[4], PhoneA>>, d3).data, n[4], t[4])

NameOrders ==
  {n \in [1..4 -> {NameA, NameB, NameC, NameD}] :
     \A i, j \in 1..4 : i # j => n[i] # n[j]}

TagBooks ==
  {FourContacts(n, t) : n \in NameOrders, t \in [1..4 -> {<<>>, TagT, TagU}]}

\* sort-by-tags asked of books of four contacts in any order
TagSpec ==
  StartFrom(TagBooks) /\ [][SortByTags \/ AddTag \/ DeleteAllTags]_vars

\* where the record of entry i of the store stands in recs
PlaceOf(recs, d, i) == CHOOSE k \in 1..Len(recs) : recs[k] = d[i].rec

\* recs holds the records of d, those without the tag first, each group in
\* the order of d
StablyParted(recs, d, tag) ==
  /\ Len(recs) = Len(d)
  /\ \A i \in 1..Len(d) : \E k \in 1..Len(recs) : recs[k] = d[i].rec
  /\ \A i, j \in 1..Len(d) :
       /\ (~HasTag(d[i].rec, tag) /\ HasTag(d[j].rec, tag)) =>
            PlaceOf(recs, d, i) < PlaceOf(recs, d, j)
       /\ (i < j /\ (HasTag(d[i].rec, tag) <=> HasTag(d[j].rec, tag))) =>
            PlaceOf(recs, d, i) < PlaceOf(recs, d, j)

\* C13: sort_by_tags returns all the records, those without the tag before
\* those with it, each group in the order of the store; the store is left as
\* it was.
C13_StableSort ==
  (last.op = "sort_by_tags_command" /\ last.args # <<>>) =>
    LET sorted_records == sort_by_tags(prev, last.args[1])
    IN /\ StablyParted(sorted_records, prev, last.args[1])
       /\ data = prev
       /\ last.exc = ""
       /\ last.ret = IF sorted_records = <<>> THEN <<MsgNoTagged>>
                     ELSE Join(<<"\n">>, RecordStrs(sorted_records))

C13_Witness ==
  /\ last.op = "sort_by_tags_command"
  /\ last.args = <<TagT>>
  /\ Len(prev) = 4
  /\ <<prev[1].key, prev[2].key, prev[3].key, prev[4].key>>
       = <<NameA, NameB, NameC, NameD>>
  /\ ~HasTag(prev[1].rec, TagT) /\ HasTag(prev[2].rec, TagT)
  /\ ~HasTag(prev[3].rec, TagT) /\ HasTag(prev[4].rec, TagT)
  /\ sort_by_tags(prev, TagT)
       = <<prev[1].rec, prev[3].rec, prev[2].rec, prev[4].rec>>


\* ---------------------------------------------------------------------
\* C14  add over a stored name
\* ---------------------------------------------------------------------

\* C14: add name phone over a name already in the store replaces the record:
\* the record under the name then has the new phone alone and no other field,
\* and the store has as many entries as before.
C14_AddReplaces ==
  (Returned("add_contact_command", "Contact added.") /\ find(prev, last.args[1])) =>
    /\ find(data, last.args[1])
    /\ LET rec == GetItem(data, last.args[1])
       IN /\ rec.name = last.args[1]
          /\ rec.phones = <<last.args[2]>>
          /\ rec.email = None /\ rec.address = None
          /\ rec.birthday = None /\ rec.notes = None
          /\ rec.tags = <<>>
    /\ Len(data) = Len(prev)
    /\ \A i \in 1..Len(prev) : data[i].key = prev[i].key

C14_Witness ==
  /\ Returned("add_contact_command", "Contact added.")
  /\ find(prev, last.args[1])
  /\ GetItem(prev, last.args[1]).email # None
  /\ GetItem(prev, last.args[1]).phones # <<last.args[2]>>
  /\ Len(prev) = 2


\* ---------------------------------------------------------------------
\* C15  edit_phone
\* ---------------------------------------------------------------------

\* add name with phones[1], then add the other phones one by one with
\* change-phone name <a phone the record has not> phone
RECURSIVE MorePhones(_, _, _)
MorePhones(d, name, phones) ==
  IF phones = <<>> THEN d
  ELSE MorePhones(change_phone_command(<<name, PhoneBad, Head(phones)>>, d).data,
                  name, Tail(phones))

WithPhones(d, name, phones) ==
  MorePhones(add_contact_command(<<name, Head(phones)>>, d).data, name, Tail(phones))

PhoneLists ==
  UNION {[1..n -> {PhoneA, PhoneB}] : n \in 1..3}

PhoneBooks ==
  {WithPhones(WithPhones(<<>>, NameA, phones), NameB, <<PhoneB>>) :
     phones \in PhoneLists}

\* the phone operations on records holding up to three phones, some twice
PhoneSpec ==
  StartFrom(PhoneBooks)
    /\ [][EditPhone \/ ChangePhone \/ DeletePhone \/ ShowPhone]_vars

\* phones without those equal to the text
RECURSIVE Without(_, _)
Without(phones, text) ==
  IF phones = <<>> THEN <<>>
  ELSE IF Head(phones) = text THEN Without(Tail(phones), text)
       ELSE <<Head(phones)>> \o Without(Tail(phones), text)

Holds(phones, text) == \E i \in 1..Len(phones) : phones[i] = text

\* C15: edit_phone(old, new) with a valid new phone leaves the phones as they
\* were without those equal to old, followed by new, and raises nothing; when
\* old is not among them the list grows by new.
C15_EditPhone ==
  last.op = "edit_phone" =>
    LET name == last.args[1]
        old == last.args[2]
        new == last.args[3]
        before == GetItem(prev, name)
    IN /\ TenDecimalDigits(new) => last.exc = ""
       /\ last.exc = "" =>
            /\ data = Update(prev, name,
                 [before EXCEPT !.phones = Without(before.phones, old) \o <<new>>])
            /\ ~Holds(before.phones, old) =>
                 GetItem(data, name).phones = before.phones \o <<new>>

C15_Witness ==
  /\ last.op = "edit_phone"
  /\ last.exc = ""
  /\ GetItem(prev, last.args[1]).phones = <<PhoneA, PhoneB, PhoneA>>
  /\ last.args[2] = PhoneA
  /\ GetItem(data, last.args[1]).phones = <<PhoneB, PhoneB>>


\* ---------------------------------------------------------------------
\* C16  delete-phone
\* ---------------------------------------------------------------------

\* C16: after delete-phone name p on a contact in the store no phone of the
\* record equals p and its other phones are as before, in order; when p was
\* its only phone value, phone name then answers that no phone is specified.
C16_DeletePhone ==
  (last.op = "delete_phone_command" /\ Len(last.args) = 2
     /\ find(prev, last.args[1])) =>
    LET name == last.args[1]
        p == last.args[2]
        before == GetItem(prev, name)
    IN /\ data = Update(prev, name,
                        [before EXCEPT !.phones = Without(before.phones, p)])
       /\ ~Holds(GetItem(data, name).phones, p)
       /\ (\A i \in 1..Len(before.phones) : before.phones[i] = p) =>
            show_phone_command(<<name>>, data).ret
              = <<"Contact not found or phone not specified.">>

C16_Witness ==
  /\ last.op = "delete_phone_command" /\ Len(last.args) = 2
  /\ find(prev, last.args[1])
  /\ GetItem(prev, last.args[1]).phones = <<last.args[2], last.args[2]>>
  /\ GetItem(data, last.args[1]).phones = <<>>


\* ---------------------------------------------------------------------
\* C17  unknown commands
\* ---------------------------------------------------------------------

\* the words main compares the command with
TableCommands ==
  {Cmd.close, Cmd.exit, Cmd.help, Cmd.hello, Cmd.add, Cmd.change,
   Cmd.search_by_tag, Cmd.sort_by_tags, Cmd.phone, Cmd.find_by_phone,
   Cmd.find_by_email, Cmd.all, Cmd.add_birthday, Cmd.show_birthday,
   Cmd.birthdays, Cmd.notes, Cmd.add_notes, Cmd.add_tag, Cmd.show_tags,
   Cmd.delete_contact, Cmd.delete_email, Cmd.delete_address,
   Cmd.delete_phone, Cmd.delete_birthday, Cmd.delete_all_tags,
   Cmd.save, Cmd.load}

\* C17: a line whose command, in lower case, is none of the words main
\* compares it with prints "Invalid command.", calls no handler and leaves the
\* AddressBook as it was; a command typed in any case reaches the handler of
\* its lower-case word.
C17_Unknown ==
  (last.via = "main" /\ last.line # <<>>) =>
    LET word == lower(Head(last.line))
    IN /\ word \notin TableCommands =>
            /\ last.ret = <<"Invalid command.">>
            /\ last.op = ""
            /\ last.exc = ""
            /\ data = prev
            /\ loop = "running"
       /\ word = Cmd.add =>
            /\ last.op = "add_contact_command"
            /\ last.ret = add_contact_command(Tail(last.line), prev).ret
            /\ data = add_contact_command(Tail(last.line), prev).data
       /\ word = Cmd.exit => loop = "exited" /\ last.ret = <<"Goodbye!">>

C17_Witness ==
  /\ last.via = "main"
  /\ last.line = <<Word.bogus>>
  /\ last.ret = <<"Invalid command.">>
  /\ prev # <<>>


\* ---------------------------------------------------------------------
\* C18  Email
\* ---------------------------------------------------------------------

\* the Email constructor given every text of up to MaxEmailLen characters
\* over a letter, '@' and '.'
EmailSpec == StartFrom({<<>>}) /\ [][MakeEmail]_vars

\* local@domain.tld: one '@', not first, and after it a '.' with a character
\* on both sides
OneAtThenDot(value) ==
  /\ Cardinality({i \in 1..Len(value) : value[i] = "@"}) = 1
  /\ \E a \in 2..Len(value) : \E d \in (a + 2)..(Len(value) - 1) :
       value[a] = "@" /\ value[d] = "."

\* C18: the Email constructor accepts a text if and only if it has one '@',
\* not first, and after it a '.' with a character on both sides; any other
\* text raises the email-format error.
C18_Claim ==
  last.op = "Email" =>
    /\ last.exc = "" <=> OneAtThenDot(last.args[1])
    /\ last.exc # "" => last.exc = "ValueError" /\ last.ret = <<MsgEmail>>


\* ---------------------------------------------------------------------
\* C19  handlers that answer with an error
\* ---------------------------------------------------------------------

ErrorTexts ==
  {<<MsgPhone>>, <<MsgEmail>>, <<MsgBirthday>>, <<MsgNotFound>>, <<MsgMissing>>}

\* C19: a handler that returns an error message (a validation message,
\* "Contact not found." or "Invalid command or missing argument.") leaves the
\* AddressBook and every record in it as they were before the call
C19_Claim ==
  (HandlerCalled /\ last.ret \in ErrorTexts) => data = prev


\* ---------------------------------------------------------------------
\* C20  renaming leaves the other contacts alone
\* ---------------------------------------------------------------------

\* C20: change_name_command on a contact in the store changes that contact
\* only: every other entry is in the store as before and the store has as
\* many entries as before, whatever the new name
C20_Claim ==
  Returned("change_name_command", "Name updated.") =>
    /\ Len(data) = Len(prev)
    /\ \A i \in 1..Len(prev) :
         prev[i].key # last.args[1] =>
           \E j \in 1..Len(data) : data[j] = prev[i]

====
